---- MODULE Spec2Model ----
(***************************************************************************)
(* Resilient fetch engine of arbitrage_bot: ProxyPool                      *)
(* (scrapers/proxy_pool.py) and AsyncBaseScraper                           *)
(* (scrapers/async_base_scraper.py): circuit breaker, rate limiter, retry  *)
(* wrapper and the API -> HTML -> browser chain of get_odds.               *)
(*                                                                         *)
(* Time is counted in ticks of half a second, so that the jitter range     *)
(* (0.5, 1.5) of with_retries is the integer range 1..3.  One clock `now`  *)
(* stands for time.time(), loop.time() and time.perf_counter().            *)
(***************************************************************************)
EXTENDS Integers, Sequences, FiniteSets, TLC

VARIABLES
    now,              \* the clock
    ua,               \* self.ua
    cb_store,         \* self._cb_store: key -> [fail_count, state, opened_at]
    proxy_pool,       \* self.proxy_pool: [fail_counts, latencies, blacklist, cycle]
    metrics,          \* self.metrics
    rate_lock,        \* holder of self._rate_lock (0: free)
    last_request_ts,  \* self._last_request_ts
    call,             \* per task: the frame of with_retries.wrapped
    chain,            \* per task: the frame of get_odds
    started,          \* number of calls started so far (bounds the run)
    cb_hist,          \* history: per key, failures recorded since the last recorded success
    pool_hist,        \* history of the pool: last get()/next() result, blacklist deadlines
    client,           \* self.client
    _playwright,      \* self._playwright
    _browser,         \* self._browser
    _context_cache,   \* self._context_cache: OrderedDict as a sequence of
                      \* [key, ctx, created_at, made_with (history: the UA of new_context)]
    _context_profiles, \* self._context_profiles: key -> profile
    _context_ua,      \* self._context_ua: key -> user-agent
    acq,              \* per task: the frame of _get_browser_context
    ctx_hist,         \* history: contexts made and closed, handles closed, last lifecycle call
    permits,          \* free permits of the shared asyncio.Semaphore
    shared,           \* per task: the frame of _acquire_rate_slot, shared branch
    batch             \* the frame of get_multiple_odds

\* the browser side of the engine
cache_vars == <<client, _playwright, _browser, _context_cache, _context_profiles,
                _context_ua, acq, ctx_hist>>

\* the shared limiter
shared_vars == <<permits, shared>>

\* the fetch side of the engine
fetch_vars == <<cb_store, proxy_pool, metrics, rate_lock, last_request_ts,
                call, chain, started, cb_hist, pool_hist>>

vars == <<now, ua, fetch_vars, cache_vars, shared_vars, batch>>

----------------------------------------------------------------------------
(* Bounds of the model *)

NumTasks == 2          \* concurrently running callers
MaxCalls == 4          \* get_odds / try_* calls started in one run
MaxTime == 3           \* ticks the clock advances in one run
MaxPoolOps == 6        \* pool operations in one run of SpecPool
MaxIoTicks == 0        \* ticks one primitive's I/O may take
MaxAcq == 3            \* context acquisitions in one run of SpecCache
MaxBurstAcq == 4       \* context acquisitions in one run of SpecBurst
MaxOpens == 1          \* times the engine is opened in one run of SpecCache
MaxShared == 3         \* attempts passing the shared limiter in one run of SpecShared
SemCapacity == 2       \* permits of the shared semaphore
MaxApis == 2           \* length of api_endpoints given to get_multiple_odds
MaxPaths == 1          \* length of sport_paths given to get_multiple_odds
MaxMatches == 2        \* matches one get_odds call returns
MaxBatches == 2        \* get_multiple_odds calls in one run of SpecBatch
CONTEXT_TTL_SEC == 2   \* ticks a cached context lives (the class constant, scaled)
CONTEXT_CACHE_MAX == 2 \* entries the context cache may hold (the class constant, scaled)
StartTime == 10        \* reading of the clock when the engine is constructed

(* Configuration of the engine under check (constructor arguments) *)

default_max_retries == 2
failure_threshold == 2
recovery_timeout == 2
min_interval == 1
cooldown == 2

(* Program constants *)

max_failures == 3
LatencyWindow == 20
backoff_base == 1

None == "None"
Tasks == 1..NumTasks
jitter == <<1, 3>>
USER_AGENTS == {"ua_desktop", "ua_mobile"}
proxy_list == <<"A", "B">>
Proxies == {proxy_list[i] : i \in DOMAIN proxy_list}
ApiEndpoints == {"e1", "e2"}
Url == "u1"
Tiers == <<"api", "http", "browser">>
TierSet == {"api", "http", "browser"}
Keys == {<<"api", e>> : e \in ApiEndpoints} \cup {<<"http", Url>>, <<"browser", Url>>}
RetryAfterValues == {0, 10}

Max(a, b) == IF a >= b THEN a ELSE b

RECURSIVE Pow2(_)
Pow2(n) == IF n <= 0 THEN 1 ELSE 2 * Pow2(n - 1)

RECURSIVE Sum(_)
Sum(s) == IF s = <<>> THEN 0 ELSE Head(s) + Sum(Tail(s))

----------------------------------------------------------------------------
(* ProxyPool *)

\* ProxyPool(proxies): self.proxies keeps the configured order
NewPool(list) ==
    [proxies     |-> list,
     fail_counts |-> [p \in {list[i] : i \in DOMAIN list} |-> 0],
     latencies   |-> [p \in {list[i] : i \in DOMAIN list} |-> <<>>],
     blacklist   |-> [p \in {} |-> 0],
     cycle       |-> 0]

ProxyPoolInit == NewPool(proxy_list)

\* _prune_blacklist: expired entries leave the blacklist, their count is reset
prune_blacklist(pool, t) ==
    LET expired == {p \in DOMAIN pool.blacklist : pool.blacklist[p] <= t}
    IN  [pool EXCEPT
           !.blacklist = [p \in (DOMAIN pool.blacklist) \ expired |-> pool.blacklist[p]],
           !.fail_counts = [p \in DOMAIN pool.fail_counts |->
                               IF p \in expired THEN 0 ELSE pool.fail_counts[p]]]

\* (mutant) `<=` for `<`
is_available_le(pool, p) == pool.fail_counts[p] <= max_failures

\* _is_available, evaluated on the pool as _prune_blacklist leaves it
is_available(pool, p) == pool.fail_counts[p] < max_failures

\* key of the ranking of get(): mean(kv[1]) < mean(kv'[1]), an empty window being inf
MeanLess(a, b) ==
    IF a = <<>> THEN FALSE
    ELSE IF b = <<>> THEN TRUE
    ELSE Sum(a) * Len(b) < Sum(b) * Len(a)

\* sorted() is stable: equal keys keep the order of self.latencies (the configured order)
RankedBefore(pool, i, j) ==
    \/ MeanLess(pool.latencies[pool.proxies[i]], pool.latencies[pool.proxies[j]])
    \/ /\ ~MeanLess(pool.latencies[pool.proxies[j]], pool.latencies[pool.proxies[i]])
       /\ i < j

\* (mutant) the rotation restarts at the head of the list on every call
next_from_start(pool, t) ==
    IF Len(pool.proxies) = 0 THEN [pool |-> pool, ret |-> None, inspected |-> 0]
    ELSE
      LET pruned == prune_blacklist(pool, t)
          n == Len(pool.proxies)
          hits == {k \in 1..n : is_available(pruned, pool.proxies[k])}
      IN  IF hits = {} THEN [pool |-> pruned, ret |-> None, inspected |-> n]
          ELSE LET k == CHOOSE h \in hits : \A g \in hits : h <= g
               IN  [pool |-> [pruned EXCEPT !.cycle = k % n], ret |-> pool.proxies[k],
                    inspected |-> k]

\* next(): [pool, ret, inspected], inspected being the number of next(self._cycle) drawn
next(pool, t) ==
    IF Len(pool.proxies) = 0 THEN [pool |-> pool, ret |-> None, inspected |-> 0]
    ELSE
      LET pruned == prune_blacklist(pool, t)
          n == Len(pool.proxies)
          at(k) == pool.proxies[((pool.cycle + k - 1) % n) + 1]
          hits == {k \in 1..n : is_available(pruned, at(k))}
      IN  IF hits = {} THEN [pool |-> pruned, ret |-> None, inspected |-> n]
          ELSE LET k == CHOOSE h \in hits : \A g \in hits : h <= g
               IN  [pool |-> [pruned EXCEPT !.cycle = (pool.cycle + k) % n], ret |-> at(k),
                    inspected |-> k]

\* (mutant) the first available proxy in the configured order, whatever the latencies
get_first_available(pool, t) ==
    IF Len(pool.proxies) = 0 THEN [pool |-> pool, ret |-> None]
    ELSE
      LET pruned == prune_blacklist(pool, t)
          avail == {i \in DOMAIN pool.proxies : is_available(pruned, pool.proxies[i])}
      IN  IF avail = {} THEN [pool |-> next(pruned, t).pool, ret |-> next(pruned, t).ret]
          ELSE LET i == CHOOSE a \in avail : \A b \in avail : a <= b
               IN  [pool |-> pruned, ret |-> pool.proxies[i]]

\* get(): [pool, ret]
get(pool, t) ==
    IF Len(pool.proxies) = 0 THEN [pool |-> pool, ret |-> None]
    ELSE
      LET pruned == prune_blacklist(pool, t)
          avail == {i \in DOMAIN pool.proxies : is_available(pruned, pool.proxies[i])}
      IN  IF avail = {} THEN [pool |-> next(pruned, t).pool, ret |-> next(pruned, t).ret]
          ELSE LET i == CHOOSE a \in avail : \A b \in avail : a = b \/ RankedBefore(pruned, a, b)
               IN  [pool |-> pruned, ret |-> pool.proxies[i]]

mark_failed(pool, p, t) ==
    IF p = None THEN pool
    ELSE LET n == pool.fail_counts[p] + 1
         IN  [pool EXCEPT
                !.fail_counts[p] = n,
                !.blacklist = IF n >= max_failures
                              THEN (p :> (t + cooldown)) @@ pool.blacklist
                              ELSE pool.blacklist]

\* (mutant) hard reset of the count
mark_success_reset(pool, p) ==
    IF p = None THEN pool
    ELSE [pool EXCEPT
            !.fail_counts[p] = 0,
            !.blacklist = [q \in (DOMAIN pool.blacklist) \ {p} |-> pool.blacklist[q]]]

\* (mutant) the count is lowered without the floor
mark_success_no_floor(pool, p) ==
    IF p = None THEN pool
    ELSE [pool EXCEPT
            !.fail_counts[p] = pool.fail_counts[p] - 1,
            !.blacklist = [q \in (DOMAIN pool.blacklist) \ {p} |-> pool.blacklist[q]]]

mark_success(pool, p) ==
    IF p = None THEN pool
    ELSE [pool EXCEPT
            !.fail_counts[p] = Max(0, pool.fail_counts[p] - 1),
            !.blacklist = [q \in (DOMAIN pool.blacklist) \ {p} |-> pool.blacklist[q]]]

mark_latency(pool, p, duration) ==
    IF p = None THEN pool
    ELSE LET l == Append(pool.latencies[p], duration)
         IN  [pool EXCEPT !.latencies[p] = IF Len(l) > LatencyWindow THEN Tail(l) ELSE l]

\* stats(): [pool, ret]
stats(pool, t) ==
    LET pruned == prune_blacklist(pool, t)
    IN  [pool |-> pruned,
         ret  |-> [fail_counts |-> pruned.fail_counts, blacklist |-> pruned.blacklist]]

----------------------------------------------------------------------------
(* Circuit breaker *)

NewRecord == [fail_count |-> 0, state |-> "closed", opened_at |-> 0]

\* _cb_get: the store with the record of key created if missing
_cb_get(store, key) ==
    IF key \in DOMAIN store THEN store ELSE (key :> NewRecord) @@ store

\* (mutant) the open state admits without looking at recovery_timeout
_cb_allow_ignores_timeout(store, key, t) ==
    LET s == _cb_get(store, key)
    IN  IF s[key].state = "open"
        THEN [store |-> [s EXCEPT ![key].state = "half-open"], ok |-> TRUE]
        ELSE [store |-> s, ok |-> TRUE]

\* _cb_allow: [store, ok]
_cb_allow(store, key, t) ==
    LET s == _cb_get(store, key)
        r == s[key]
    IN  IF r.state = "closed" THEN [store |-> s, ok |-> TRUE]
        ELSE IF r.state = "open"
             THEN IF t - r.opened_at >= recovery_timeout
                  THEN [store |-> [s EXCEPT ![key].state = "half-open"], ok |-> TRUE]
                  ELSE [store |-> s, ok |-> FALSE]
             ELSE [store |-> s, ok |-> TRUE]

_cb_record_success(store, key) ==
    LET s == _cb_get(store, key)
    IN  [s EXCEPT ![key] = [fail_count |-> 0, state |-> "closed", opened_at |-> 0]]

\* (mutant) a failed trial reopens the breaker under its old opened_at
_cb_record_failure_keeps_opened_at(store, key, t) ==
    LET s == _cb_get(store, key)
        n == s[key].fail_count + 1
    IN  IF n >= failure_threshold
        THEN [s EXCEPT ![key] = [fail_count |-> n, state |-> "open",
                                 opened_at |-> IF s[key].state = "half-open"
                                               THEN s[key].opened_at ELSE t]]
        ELSE [s EXCEPT ![key].fail_count = n]

\* (mutant) opens one failure late: `>` for `>=`
_cb_record_failure_late(store, key, t) ==
    LET s == _cb_get(store, key)
        n == s[key].fail_count + 1
    IN  IF n > failure_threshold
        THEN [s EXCEPT ![key] = [fail_count |-> n, state |-> "open", opened_at |-> t]]
        ELSE [s EXCEPT ![key].fail_count = n]

_cb_record_failure(store, key, t) ==
    LET s == _cb_get(store, key)
        n == s[key].fail_count + 1
    IN  IF n >= failure_threshold
        THEN [s EXCEPT ![key] = [fail_count |-> n, state |-> "open", opened_at |-> t]]
        ELSE [s EXCEPT ![key].fail_count = n]

----------------------------------------------------------------------------
(* with_retries.wrapped: one frame per task *)

\* retry_on default of with_retries: (httpx.RequestError, PWError).
\* httpx.HTTPStatusError (raise_for_status) and RuntimeError are no subclasses of either.
retry_on == {"RequestError", "PWError"}

IsRetryable(exc) == exc \in retry_on

\* `raise RuntimeError("Empty result")` after a primitive returned None
EmptyResultError == "RuntimeError"

\* what the primitive of a tier can do: return a value, return None, raise
Outcomes(tier) ==
    IF tier = "api" THEN
        {[kind |-> "value", val |-> v, exc |-> None, retry_after |-> 0] : v \in {"data", "falsy"}}
        \cup {[kind |-> "none", val |-> None, exc |-> None, retry_after |-> 0]}
        \cup {[kind |-> "raise", val |-> None, exc |-> "RequestError", retry_after |-> 0]}
        \cup {[kind |-> "raise", val |-> None, exc |-> "HTTPStatusError", retry_after |-> s] :
                s \in RetryAfterValues}
    ELSE IF tier = "http" THEN
        {[kind |-> "value", val |-> "data", exc |-> None, retry_after |-> 0]}
        \cup {[kind |-> "none", val |-> None, exc |-> None, retry_after |-> 0]}
        \cup {[kind |-> "raise", val |-> None, exc |-> "RequestError", retry_after |-> 0]}
        \cup {[kind |-> "raise", val |-> None, exc |-> "HTTPStatusError", retry_after |-> s] :
                s \in RetryAfterValues}
    ELSE
        {[kind |-> "value", val |-> "data", exc |-> None, retry_after |-> 0]}
        \cup {[kind |-> "none", val |-> None, exc |-> None, retry_after |-> 0]}
        \cup {[kind |-> "raise", val |-> None, exc |-> "PWError", retry_after |-> 0]}
        \cup {[kind |-> "raise", val |-> None, exc |-> "RuntimeError", retry_after |-> 0]}

IdleFrame ==
    [pc |-> "idle", tier |-> None, key |-> <<>>, attempt |-> 0, proxy |-> None,
     wake |-> 0, start |-> 0, seen |-> None, trace |-> <<>>,
     last |-> None, exc |-> None, retry_after |-> 0, sleep_for |-> 0, result |-> None,
     raised |-> None]

MetricsInit ==
    [requests_made |-> 0, successful_requests |-> 0, failed_requests |-> 0,
     matches_collected |-> 0, latency_histogram |-> <<>>, proxy_success |-> 0,
     proxy_fail |-> 0, endpoint_errors |-> [k \in Keys |-> 0]]

\* sleep_for = (backoff_base * (2 ** (attempt - 1))) * random.uniform(*jitter)
sleep_for(attempt, j) == (backoff_base * Pow2(attempt - 1)) * j

\* The engine state the wrapper works on, as one record
Engine == [cb |-> cb_store, pool |-> proxy_pool, m |-> metrics, hist |-> cb_hist]

\* The per-instance limiter: self._rate_lock and self._last_request_ts
Limiter == [lock |-> rate_lock, last |-> last_request_ts]

\* wrapped, from its entry to the first suspension of attempt 1:
\* admission check, initial proxy, user-agent of attempt 1 (chosen by the action)
Admit(e, tier, key) ==
    LET seen == _cb_get(e.cb, key)[key].state
        a == _cb_allow(e.cb, key, now)
        g == get(e.pool, now)
        base == [IdleFrame EXCEPT !.tier = tier, !.key = key, !.seen = seen]
    IN  IF ~a.ok
        THEN [e |-> [e EXCEPT !.cb = a.store],
              f |-> [base EXCEPT !.pc = "ret", !.trace = <<"blocked", "ret_none">>],
              rotated |-> FALSE]
        ELSE [e |-> [e EXCEPT !.cb = a.store, !.pool = g.pool],
              f |-> [base EXCEPT !.pc = "rate", !.attempt = 1, !.proxy = g.ret,
                                 !.trace = <<"admit", "draw", "ua">>],
              rotated |-> TRUE]

\* after the for loop: "exhausted retries"
Exhausted(e, f) ==
    [e |-> [e EXCEPT !.cb = _cb_record_failure(e.cb, f.key, now),
                     !.hist[f.key] = @ + 1,
                     !.m.endpoint_errors[f.key] = @ + 1],
     f |-> [f EXCEPT !.pc = "ret", !.result = None,
                     !.trace = f.trace \o <<"cb_failure", "err_inc", "ret_none">>]]

\* `except Exception`: non-retryable, break
OnNonRetryable(e, f, o) ==
    Exhausted([e EXCEPT !.m.failed_requests = @ + 1],
              [f EXCEPT !.last = o.kind, !.exc = o.exc, !.retry_after = o.retry_after,
                        !.trace = f.trace \o <<"break">>])

\* (mutant) no rotation: the next attempt keeps the proxy that just failed
OnRetryable_keeps_proxy(e, f, o, j) ==
    LET hasproxy == f.proxy # None
        failed == mark_failed(e.pool, f.proxy, now)
        s == sleep_for(f.attempt, j)
    IN  [e |-> [e EXCEPT !.m.failed_requests = @ + 1,
                         !.m.proxy_fail = IF hasproxy THEN @ + 1 ELSE @,
                         !.pool = failed],
         f |-> [f EXCEPT !.pc = "backoff", !.last = o.kind, !.exc = o.exc,
                         !.retry_after = o.retry_after,
                         !.sleep_for = s, !.wake = now + s,
                         !.trace = f.trace
                                   \o (IF hasproxy THEN <<"mark_failed">> ELSE <<>>)
                                   \o <<"draw", "sleep">>]]

\* (mutant) the breaker failure and the endpoint error are recorded on every failed attempt
OnRetryable_records_each(e, f, o, j) ==
    LET hasproxy == f.proxy # None
        failed == mark_failed(e.pool, f.proxy, now)
        n == next(failed, now)
        s == sleep_for(f.attempt, j)
    IN  [e |-> [e EXCEPT !.m.failed_requests = @ + 1,
                         !.m.proxy_fail = IF hasproxy THEN @ + 1 ELSE @,
                         !.m.endpoint_errors[f.key] = @ + 1,
                         !.cb = _cb_record_failure(e.cb, f.key, now),
                         !.hist[f.key] = @ + 1,
                         !.pool = n.pool],
         f |-> [f EXCEPT !.pc = "backoff", !.last = o.kind, !.exc = o.exc,
                         !.retry_after = o.retry_after,
                         !.proxy = n.ret, !.sleep_for = s, !.wake = now + s,
                         !.trace = f.trace
                                   \o (IF hasproxy THEN <<"mark_failed">> ELSE <<>>)
                                   \o <<"draw", "sleep">>]]

\* `except local_retry_on`: mark the proxy failed, draw the next one, back off
OnRetryable(e, f, o, j) ==
    LET hasproxy == f.proxy # None
        failed == mark_failed(e.pool, f.proxy, now)
        n == next(failed, now)
        s == sleep_for(f.attempt, j)
    IN  [e |-> [e EXCEPT !.m.failed_requests = @ + 1,
                         !.m.proxy_fail = IF hasproxy THEN @ + 1 ELSE @,
                         !.pool = n.pool],
         f |-> [f EXCEPT !.pc = "backoff", !.last = o.kind, !.exc = o.exc,
                         !.retry_after = o.retry_after,
                         !.proxy = n.ret, !.sleep_for = s, !.wake = now + s,
                         !.trace = f.trace
                                   \o (IF hasproxy THEN <<"mark_failed">> ELSE <<>>)
                                   \o <<"draw", "sleep">>]]

\* the except clauses of the attempt, in the order of the source
OnException(e, f, o, j) ==
    IF IsRetryable(o.exc) THEN OnRetryable(e, f, o, j) ELSE OnNonRetryable(e, f, o)

\* (mutant) a success that leaves the breaker record as it is
OnReturn_keeps_breaker(e, f, o, j) ==
    LET duration == now - f.start
        hasproxy == f.proxy # None
        e1 == [e EXCEPT !.m.latency_histogram = Append(@, duration),
                        !.pool = mark_latency(e.pool, f.proxy, duration)]
    IN  IF o.kind = "value"
        THEN [e |-> [e1 EXCEPT !.m.successful_requests = @ + 1,
                               !.m.proxy_success = IF hasproxy THEN @ + 1 ELSE @,
                               !.pool = mark_success(e1.pool, f.proxy),
                               !.hist[f.key] = 0],
              f |-> [f EXCEPT !.pc = "ret", !.last = o.kind, !.result = o.val,
                              !.trace = f.trace \o <<"mark_latency", "cb_success", "ret_val">>]]
        ELSE OnException(e1, [f EXCEPT !.trace = f.trace \o <<"mark_latency">>],
                         [o EXCEPT !.exc = EmptyResultError], j)

\* a primitive that returned: latency bookkeeping, then success or "Empty result"
OnReturn(e, f, o, j) ==
    LET duration == now - f.start
        hasproxy == f.proxy # None
        e1 == [e EXCEPT !.m.latency_histogram = Append(@, duration),
                        !.pool = mark_latency(e.pool, f.proxy, duration)]
    IN  IF o.kind = "value"
        THEN [e |-> [e1 EXCEPT !.m.successful_requests = @ + 1,
                               !.m.proxy_success = IF hasproxy THEN @ + 1 ELSE @,
                               !.pool = mark_success(e1.pool, f.proxy),
                               !.cb = _cb_record_success(e.cb, f.key),
                               !.hist[f.key] = 0],
              f |-> [f EXCEPT !.pc = "ret", !.last = o.kind, !.result = o.val,
                              !.trace = f.trace \o <<"mark_latency", "cb_success", "ret_val">>]]
        ELSE OnException(e1, [f EXCEPT !.trace = f.trace \o <<"mark_latency">>],
                         [o EXCEPT !.exc = EmptyResultError], j)

\* completion of the primitive of frame f with outcome o (j: the jitter drawn)
OnComplete(e, f, o, j) ==
    IF o.kind = "raise" THEN OnException(e, f, o, j) ELSE OnReturn(e, f, o, j)

\* the primitive starts right after the rate slot: requests_made is counted by
\* try_api and try_static_html, not by try_browser
BeginExec(m, f) ==
    [m |-> IF f.tier \in {"api", "http"} THEN [m EXCEPT !.requests_made = @ + 1] ELSE m,
     f |-> [f EXCEPT !.pc = "io", !.start = now, !.trace = f.trace \o <<"slot", "exec">>]]

----------------------------------------------------------------------------
(* get_odds: the API -> static HTML -> browser chain *)

IdleChain ==
    [status |-> "idle", api |-> None, matches |-> <<>>, invoked |-> <<>>, exc_seen |-> FALSE]

\* what paginate_hook and parse_api / parse_html can do with a fetched payload
HookOutcomes(tier) ==
    {"empty", "records", "raise_parse"} \cup (IF tier = "api" THEN {} ELSE {"raise_paginate"})

\* the list a parser returns
Parsed(tier, h) == IF h = "records" THEN <<tier, tier, tier>> ELSE <<>>

\* `if data:` / `if soup:` / `if html:`
Truthy(result) == result = "data"

\* (mutant) the hooks run outside the try block
ParseTier_uncaught(tier, result, h, c) ==
    IF ~Truthy(result) THEN [matches |-> c.matches, exc_seen |-> c.exc_seen, raised |-> FALSE]
    ELSE IF h \in {"raise_parse", "raise_paginate"}
         THEN [matches |-> c.matches, exc_seen |-> TRUE, raised |-> TRUE]
         ELSE [matches |-> c.matches \o Parsed(tier, h), exc_seen |-> c.exc_seen,
               raised |-> FALSE]

\* one tier's `if data: try: ... except Exception: log`: [matches, exc_seen, raised]
ParseTier(tier, result, h, c) ==
    IF ~Truthy(result) THEN [matches |-> c.matches, exc_seen |-> c.exc_seen, raised |-> FALSE]
    ELSE IF h \in {"raise_parse", "raise_paginate"}
         THEN [matches |-> c.matches, exc_seen |-> TRUE, raised |-> FALSE]
         ELSE [matches |-> c.matches \o Parsed(tier, h), exc_seen |-> c.exc_seen,
               raised |-> FALSE]

\* (mutant) the guards of tiers 2 and 3 dropped
NextTier_unguarded(tier, matches) ==
    IF tier = "browser" THEN "done" ELSE IF tier = "api" THEN "http" ELSE "browser"

\* the `if not matches:` guards of tiers 2 and 3
NextTier(tier, matches) ==
    IF tier = "browser" \/ matches # <<>> THEN "done"
    ELSE IF tier = "api" THEN "http" ELSE "browser"

\* (mutant) one key for the three tiers
KeyOf_shared(tier, api) == <<"http", Url>>

\* cb_key=f"api:{api_endpoint}", f"http:{url}", f"browser:{url}"
KeyOf(tier, api) == IF tier = "api" THEN <<"api", api>> ELSE <<tier, Url>>

----------------------------------------------------------------------------
(* Rate limiter, per-instance branch *)

\* (mutant) the slot is taken without waiting for the rest of min_interval
_acquire_rate_slot_nowait(m, f, lim, t) ==
    IF lim.lock # 0
    THEN [m |-> m, f |-> [f EXCEPT !.pc = "rate"], lim |-> lim]
    ELSE LET b == BeginExec(m, f)
         IN  [m |-> b.m, f |-> b.f, lim |-> [lock |-> 0, last |-> now]]

\* _acquire_rate_slot of task t: it waits for the lock, or sleeps holding it, or takes
\* the slot, after which the primitive starts: [m, f, lim]
_acquire_rate_slot(m, f, lim, t) ==
    IF lim.lock # 0
    THEN [m |-> m, f |-> [f EXCEPT !.pc = "rate"], lim |-> lim]
    ELSE LET wait_for == min_interval - (now - lim.last)
         IN  IF wait_for > 0
             THEN [m |-> m,
                   f |-> [f EXCEPT !.pc = "rate_sleep", !.wake = now + wait_for],
                   lim |-> [lim EXCEPT !.lock = t]]
             ELSE LET b == BeginExec(m, f)
                  IN  [m |-> b.m, f |-> b.f, lim |-> [lock |-> 0, last |-> now]]

----------------------------------------------------------------------------
(* Actions of the engine *)

Commit(t, e, f) ==
    /\ cb_store' = e.cb
    /\ proxy_pool' = e.pool
    /\ metrics' = e.m
    /\ cb_hist' = e.hist
    /\ call' = [call EXCEPT ![t] = f]

\* an attempt that is at its rate-limiter step runs on to its first suspension
Proceed(t, e, f) ==
    LET s == IF f.pc = "rate"
             THEN _acquire_rate_slot(e.m, f, Limiter, t)
             ELSE [m |-> e.m, f |-> f, lim |-> Limiter]
    IN  /\ Commit(t, [e EXCEPT !.m = s.m], s.f)
        /\ rate_lock' = s.lim.lock
        /\ last_request_ts' = s.lim.last

\* callers are interchangeable: the lowest idle one starts the next call
CanStart(t) ==
    /\ started < MaxCalls
    /\ chain[t].status # "running"
    /\ call[t].pc = "idle"
    /\ \A t2 \in Tasks : t2 < t => call[t2].pc # "idle"

\* a caller awaits get_odds(api_endpoint=api, sport_path)
GetOdds(t, api, u) ==
    /\ CanStart(t)
    /\ LET tier == IF api # None THEN "api" ELSE "http"
           r == Admit(Engine, tier, KeyOf(tier, api))
       IN  /\ Proceed(t, r.e, r.f)
           /\ ua' = IF r.rotated THEN u ELSE ua
           /\ chain' = [chain EXCEPT ![t] = [IdleChain EXCEPT !.status = "running",
                                                             !.api = api,
                                                             !.invoked = <<tier>>]]
    /\ started' = started + 1
    /\ UNCHANGED <<cache_vars, shared_vars, batch, now, pool_hist>>

\* a caller awaits try_api(url, cb_key=f"api:{url}") directly (the scraper subclasses)
TryApi(t, api, u) ==
    /\ CanStart(t)
    /\ LET r == Admit(Engine, "api", KeyOf("api", api))
       IN  /\ Proceed(t, r.e, r.f)
           /\ ua' = IF r.rotated THEN u ELSE ua
    /\ chain' = [chain EXCEPT ![t] = IdleChain]
    /\ started' = started + 1
    /\ UNCHANGED <<cache_vars, shared_vars, batch, now, pool_hist>>

\* try_api, awaited directly, hands its result to the caller
TryApiReturn(t) ==
    /\ call[t].pc = "ret"
    /\ chain[t].status # "running"
    /\ call' = [call EXCEPT ![t] = IdleFrame]
    /\ UNCHANGED <<cache_vars, shared_vars, batch, now, ua, cb_store, proxy_pool, metrics, rate_lock, last_request_ts,
                   chain, started, cb_hist, pool_hist>>

\* a task that waited for self._rate_lock gets it
AcquireRateSlot(t) ==
    /\ call[t].pc = "rate"
    /\ rate_lock = 0
    /\ Proceed(t, Engine, call[t])
    /\ UNCHANGED <<cache_vars, shared_vars, batch, now, ua, chain, started, pool_hist>>

\* the sleep inside _acquire_rate_slot is over: the slot is taken, the primitive starts
RateWake(t) ==
    /\ call[t].pc = "rate_sleep"
    /\ now >= call[t].wake
    /\ LET b == BeginExec(metrics, [call[t] EXCEPT !.wake = 0])
       IN  /\ last_request_ts' = now
           /\ rate_lock' = 0
           /\ metrics' = b.m
           /\ call' = [call EXCEPT ![t] = b.f]
    /\ UNCHANGED <<cache_vars, shared_vars, batch, now, ua, cb_store, proxy_pool, chain, started, cb_hist, pool_hist>>

\* the primitive's I/O completes; the wrapper runs to its next suspension or return
Complete(t, o, j) ==
    /\ call[t].pc = "io"
    /\ o \in Outcomes(call[t].tier)
    /\ LET r == OnComplete(Engine, call[t], o, j)
       IN  Commit(t, r.e, r.f)
    /\ UNCHANGED <<cache_vars, shared_vars, batch, now, ua, rate_lock, last_request_ts, chain, started, pool_hist>>

\* the backoff sleep is over: next attempt of the for loop, or the loop is exhausted
BackoffWake(t, u) ==
    /\ call[t].pc = "backoff"
    /\ now >= call[t].wake
    /\ IF call[t].attempt < default_max_retries
       THEN /\ Proceed(t, Engine, [call[t] EXCEPT !.pc = "rate", !.attempt = @ + 1,
                                                  !.wake = 0, !.last = None, !.exc = None,
                                                  !.retry_after = 0, !.sleep_for = 0,
                                                  !.trace = @ \o <<"ua">>])
            /\ ua' = u
       ELSE /\ LET r == Exhausted(Engine, [call[t] EXCEPT !.wake = 0])
               IN  Commit(t, r.e, r.f)
            /\ UNCHANGED <<ua, rate_lock, last_request_ts>>
    /\ UNCHANGED <<cache_vars, shared_vars, batch, now, chain, started, pool_hist>>

\* get_odds resumes after a tier's wrapped call returned
ChainContinue(t, h, u) ==
    /\ call[t].pc = "ret"
    /\ chain[t].status = "running"
    /\ h \in HookOutcomes(call[t].tier)
    /\ ~Truthy(call[t].result) => h = "empty"
    /\ LET f == call[t]
           c == chain[t]
           p == ParseTier(f.tier, f.result, h, c)
           nt == NextTier(f.tier, p.matches)
           c1 == [c EXCEPT !.matches = p.matches, !.exc_seen = p.exc_seen]
       IN  IF f.raised # None \/ p.raised
           THEN /\ chain' = [chain EXCEPT ![t] = [c1 EXCEPT !.status = "raised"]]
                /\ call' = [call EXCEPT ![t] = IdleFrame]
                /\ UNCHANGED <<ua, cb_store, proxy_pool, metrics, cb_hist,
                               rate_lock, last_request_ts>>
           ELSE IF nt = "done"
           THEN /\ chain' = [chain EXCEPT ![t] = [c1 EXCEPT !.status = "returned"]]
                /\ call' = [call EXCEPT ![t] = IdleFrame]
                /\ UNCHANGED <<ua, cb_store, proxy_pool, metrics, cb_hist,
                               rate_lock, last_request_ts>>
           ELSE LET r == Admit(Engine, nt, KeyOf(nt, c.api))
                IN  /\ Proceed(t, r.e, r.f)
                    /\ ua' = IF r.rotated THEN u ELSE ua
                    /\ chain' = [chain EXCEPT ![t] = [c1 EXCEPT !.invoked = @ \o <<nt>>]]
    /\ UNCHANGED <<cache_vars, shared_vars, batch, now, started, pool_hist>>

\* time passes, except that an I/O in flight lasts at most MaxIoTicks
Tick ==
    /\ now < StartTime + MaxTime
    /\ \A t \in Tasks : call[t].pc = "io" => now - call[t].start < MaxIoTicks
    /\ \A t \in Tasks : acq[t].pc \notin {"idle", "ret"} => now - acq[t].now < MaxIoTicks
    /\ now' = now + 1
    /\ UNCHANGED <<ua, fetch_vars, cache_vars, shared_vars, batch>>

----------------------------------------------------------------------------
(* _get_browser_context: the per-proxy context cache *)

\* the keys of the cache: proxy["http"], or "direct" when the attempt runs without proxy
CtxKeys == Proxies \cup {"direct"}

\* BROWSER_PROFILES, desktop and mobile=True ones (one of each kind)
DesktopProfiles == {"desktop_new_york"}
MobileProfiles == {"mobile_chicago"}
BROWSER_PROFILES == DesktopProfiles \cup MobileProfiles

\* is_mobile: "Mobile" / "iPhone" / "Android" occurs in the user-agent
is_mobile(u) == u = "ua_mobile"

\* pick_profile(): the profiles random.choice draws from
pick_profile(u) == IF is_mobile(u) THEN MobileProfiles ELSE DesktopProfiles

IdleAcq ==
    [pc |-> "idle", key |-> None, now |-> 0, todo |-> <<>>, expired |-> {}, old |-> None,
     ctx |-> 0, made_with |-> None, result |-> 0, reused |-> FALSE, mismatch |-> FALSE,
     raised |-> None]

CtxHistInit ==
    [next_id |-> 1, closed |-> {}, handle_closes |-> 0,
     last_op |-> "init", acqs |-> 0, opens |-> 0, recency |-> <<>>]

\* the cache, its two side maps and the history, as one record
Cache ==
    [cache |-> _context_cache, profiles |-> _context_profiles, uas |-> _context_ua,
     hist |-> ctx_hist]

HasKey(cache, k) == \E i \in DOMAIN cache : cache[i].key = k

EntryOf(cache, k) == cache[CHOOSE i \in DOMAIN cache : cache[i].key = k]

CacheDrop(cache, k) == SelectSeq(cache, LAMBDA e : e.key # k)

MapDrop(m, k) == [x \in (DOMAIN m) \ {k} |-> m[x]]

MapPut(m, k, v) == [x \in (DOMAIN m) \cup {k} |-> IF x = k THEN v ELSE m[x]]

\* the three pops that follow a close
Pop3(S, k) ==
    [S EXCEPT !.cache = CacheDrop(@, k), !.profiles = MapDrop(@, k), !.uas = MapDrop(@, k)]

\* history: context id is the latest one an acquisition returned
Touch(recency, id) == Append(SelectSeq(recency, LAMBDA x : x # id), id)

\* `await ...["context"].close()` is entered: the close of the context is attempted
CloseCtx(S, id) == [S EXCEPT !.hist.closed = @ \cup {id}]

\* self._context_cache[key] = {...}: an existing key keeps its place, a new one is last
CachePut(cache, e) ==
    IF HasKey(cache, e.key)
    THEN [i \in DOMAIN cache |-> IF cache[i].key = e.key THEN e ELSE cache[i]]
    ELSE Append(cache, e)

\* from "pick and store a fingerprint profile" to the await of new_context
CreatePhase(S, f, pr) ==
    IF _browser = None
    THEN [S |-> S, f |-> [f EXCEPT !.pc = "ret", !.raised = "RuntimeError"]]
    ELSE LET id == S.hist.next_id
         IN  [S |-> [S EXCEPT !.profiles = MapPut(@, f.key, pr),
                              !.hist.next_id = id + 1],
              f |-> [f EXCEPT !.pc = "new_context", !.ctx = id, !.made_with = ua]]

\* "enforce LRU limit": one turn of the while loop up to its await, or on to the creation
LruPhase(S, f, pr) ==
    IF Len(S.cache) >= CONTEXT_CACHE_MAX
    THEN LET e == Head(S.cache)
         IN  [S |-> CloseCtx([S EXCEPT !.cache = Tail(@)], e.ctx),
              f |-> [f EXCEPT !.pc = "lru_close", !.old = e.key]]
    ELSE CreatePhase(S, f, pr)

\* (mutant) a cached entry is reused whatever user-agent it was stored with
LookupPhase_ignores_ua(S, f, pr) ==
    IF HasKey(S.cache, f.key)
    THEN LET e == EntryOf(S.cache, f.key)
         IN  [S |-> [S EXCEPT !.cache = Append(CacheDrop(@, f.key), e),
                              !.hist.recency = Touch(@, e.ctx)],
              f |-> [f EXCEPT !.pc = "ret", !.result = e.ctx, !.reused = TRUE]]
    ELSE LruPhase(S, f, pr)

\* the lookup: reuse on a user-agent match, else close the old one, else go on
LookupPhase(S, f, pr) ==
    LET has == HasKey(S.cache, f.key)
        cached_ua == IF f.key \in DOMAIN S.uas THEN S.uas[f.key] ELSE None
    IN  IF has /\ cached_ua = ua
        THEN LET e == EntryOf(S.cache, f.key)
             IN  [S |-> [S EXCEPT !.cache = Append(CacheDrop(@, f.key), e),
                              !.hist.recency = Touch(@, e.ctx)],
                  f |-> [f EXCEPT !.pc = "ret", !.result = e.ctx, !.reused = TRUE]]
        ELSE IF has
        THEN [S |-> CloseCtx(S, EntryOf(S.cache, f.key).ctx),
              f |-> [f EXCEPT !.pc = "old_close", !.mismatch = TRUE]]
        ELSE LruPhase(S, f, pr)

\* "prune expired entries": the loop over to_delete up to its next await; a key that
\* left the cache meanwhile raises KeyError inside the try and is popped without await
RECURSIVE RunPrune(_, _, _)
RunPrune(S, f, pr) ==
    IF f.todo = <<>> THEN LookupPhase(S, [f EXCEPT !.pc = "lookup"], pr)
    ELSE LET k == Head(f.todo)
         IN  IF HasKey(S.cache, k)
             THEN [S |-> CloseCtx(S, EntryOf(S.cache, k).ctx),
                   f |-> [f EXCEPT !.pc = "prune_close"]]
             ELSE RunPrune(Pop3(S, k), [f EXCEPT !.todo = Tail(@)], pr)

\* (mutant) `>` for `>=`
Expired_late(cache, t) == SelectSeq(cache, LAMBDA e : t - e.created_at > CONTEXT_TTL_SEC)

\* the entries whose age has reached the TTL, in cache order
Expired(cache, t) == SelectSeq(cache, LAMBDA e : t - e.created_at >= CONTEXT_TTL_SEC)

\* _get_browser_context(proxy) from its entry to its first await or return
BeginAcquire(S, k, pr) ==
    LET old == Expired(S.cache, now)
        f == [IdleAcq EXCEPT !.key = k, !.now = now,
                             !.todo = [i \in DOMAIN old |-> old[i].key],
                             !.expired = {[key |-> old[i].key, ctx |-> old[i].ctx] :
                                             i \in DOMAIN old}]
    IN  RunPrune(S, f, pr)

\* _get_browser_context resumed after the await it was suspended in
ResumeAcquire(S, f, pr) ==
    IF f.pc = "prune_close"
    THEN RunPrune(Pop3(S, Head(f.todo)), [f EXCEPT !.todo = Tail(@)], pr)
    ELSE IF f.pc = "old_close"
    THEN LruPhase(Pop3(S, f.key), f, pr)
    ELSE IF f.pc = "lru_close"
    THEN LruPhase([S EXCEPT !.profiles = MapDrop(@, f.old), !.uas = MapDrop(@, f.old)],
                  [f EXCEPT !.old = None], pr)
    ELSE [S |-> [S EXCEPT !.cache = CachePut(@, [key |-> f.key, ctx |-> f.ctx,
                                                  created_at |-> f.now,
                                                  made_with |-> f.made_with]),
                          !.uas = MapPut(@, f.key, ua),
                          !.hist.recency = Touch(@, f.ctx)],
          f |-> [f EXCEPT !.pc = "ret", !.result = f.ctx]]

\* the frame of _acquire_rate_slot, shared branch
IdleShared == [pc |-> "idle", wake |-> 0]

\* asyncio.Semaphore(n) handed to the engines as rate_limiter: the attempts at it,
\* how many entered it, when the last one left it
SharedInit(n) ==
    [capacity |-> n, frame |-> [t \in Tasks |-> IdleShared], entered |-> 0, last_release |-> 0]

\* the frame of get_multiple_odds: the targets of its get_odds tasks in the order of
\* `tasks`, what each task ended with, the value returned, the number of calls so far
IdleBatch == [pc |-> "idle", targets |-> <<>>, done |-> <<>>, ret |-> <<>>, calls |-> 0]

PoolHistInit ==
    [op |-> None, ret |-> None, ops |-> 0,
     deadline |-> [p \in Proxies |-> 0], forgiven |-> [p \in Proxies |-> FALSE]]

\* the engine as constructed with proxy_list=list and a semaphore of n permits
InitEngine(list, n) ==
    /\ now = StartTime
    /\ ua \in USER_AGENTS
    /\ cb_store = [k \in {} |-> NewRecord]
    /\ proxy_pool = NewPool(list)
    /\ metrics = MetricsInit
    /\ rate_lock = 0
    /\ last_request_ts = 0
    /\ call = [t \in Tasks |-> IdleFrame]
    /\ chain = [t \in Tasks |-> IdleChain]
    /\ started = 0
    /\ cb_hist = [k \in Keys |-> 0]
    /\ pool_hist = PoolHistInit
    /\ client = None
    /\ _playwright = None
    /\ _browser = None
    /\ _context_cache = <<>>
    /\ _context_profiles = <<>>
    /\ _context_ua = <<>>
    /\ acq = [t \in Tasks |-> IdleAcq]
    /\ ctx_hist = CtxHistInit
    /\ permits = n
    /\ shared = SharedInit(n)
    /\ batch = IdleBatch

InitWith(list) == InitEngine(list, SemCapacity)

Init == InitWith(proxy_list)

\* engines sharing a semaphore whose capacity the caller chose
InitShared == \E n \in 1..SemCapacity : InitEngine(proxy_list, n)

\* direct mode: the engine constructed without proxies
InitDirect == InitWith(<<>>)

\* random.uniform(*jitter): the two ends of the range and its middle
Jitters == {jitter[1], (jitter[1] + jitter[2]) \div 2, jitter[2]}

\* concurrent callers of try_api on one engine
Next ==
    \/ \E t \in Tasks, api \in ApiEndpoints, u \in USER_AGENTS : TryApi(t, api, u)
    \/ \E t \in Tasks : TryApiReturn(t)
    \/ \E t \in Tasks : AcquireRateSlot(t)
    \/ \E t \in Tasks : RateWake(t)
    \/ \E t \in Tasks : \E o \in Outcomes(call[t].tier), j \in Jitters : Complete(t, o, j)
    \/ \E t \in Tasks, u \in USER_AGENTS : BackoffWake(t, u)
    \/ Tick

Spec == Init /\ [][Next]_vars

\* one caller of get_odds at a time
NextChain ==
    \/ \E api \in ApiEndpoints \cup {None}, u \in USER_AGENTS : GetOdds(1, api, u)
    \/ RateWake(1)
    \/ \E o \in Outcomes(call[1].tier), j \in Jitters : Complete(1, o, j)
    \/ \E u \in USER_AGENTS : BackoffWake(1, u)
    \/ \E h \in HookOutcomes("http"), u \in USER_AGENTS : ChainContinue(1, h, u)
    \/ Tick

SpecChain == Init /\ [][NextChain]_vars

\* concurrent callers of try_api on an engine in direct mode
SpecDirect == InitDirect /\ [][Next]_vars

\* the engine constructed with a single proxy
InitSingle == InitWith(<<"A">>)

\* concurrent callers of try_api on an engine with a single proxy
SpecSingle == InitSingle /\ [][Next]_vars

----------------------------------------------------------------------------
(* The pool on its own: any sequence of its operations *)

Durations == {1, 2}

PoolOp(op, ret, pool) ==
    /\ pool_hist.ops < MaxPoolOps
    /\ proxy_pool' = pool
    /\ pool_hist' = [pool_hist EXCEPT !.op = op, !.ret = ret, !.ops = @ + 1]
    /\ UNCHANGED <<cache_vars, shared_vars, batch, now, ua, cb_store, metrics, rate_lock, last_request_ts,
                   call, chain, started, cb_hist>>

PoolGet ==
    LET r == get(proxy_pool, now) IN PoolOp("get", r.ret, r.pool)

PoolNext ==
    LET r == next(proxy_pool, now) IN PoolOp("next", r.ret, r.pool)

PoolStats ==
    LET r == stats(proxy_pool, now) IN PoolOp("stats", None, r.pool)

\* metrics_snapshot(): proxy_pool.stats() and a reading of self.metrics
PoolMetricsSnapshot ==
    LET r == stats(proxy_pool, now) IN PoolOp("metrics_snapshot", None, r.pool)

PoolMarkLatency(p, d) ==
    PoolOp("mark_latency", None, mark_latency(proxy_pool, p, d))

\* history: the deadline set when the count reaches max_failures, and whether a
\* mark_success has been applied since
PoolMarkFailed(p) ==
    LET pool == mark_failed(proxy_pool, p, now)
        reached == pool.fail_counts[p] >= max_failures
    IN  /\ pool_hist.ops < MaxPoolOps
        /\ proxy_pool' = pool
        /\ pool_hist' = [pool_hist EXCEPT
                           !.op = "mark_failed", !.ret = None, !.ops = @ + 1,
                           !.deadline[p] = IF reached THEN now + cooldown ELSE @,
                           !.forgiven[p] = IF reached THEN FALSE ELSE @]
        /\ UNCHANGED <<cache_vars, shared_vars, batch, now, ua, cb_store, metrics, rate_lock, last_request_ts,
                       call, chain, started, cb_hist>>

PoolMarkSuccess(p) ==
    /\ pool_hist.ops < MaxPoolOps
    /\ proxy_pool' = mark_success(proxy_pool, p)
    /\ pool_hist' = [pool_hist EXCEPT !.op = "mark_success", !.ret = None, !.ops = @ + 1,
                                      !.forgiven[p] = TRUE]
    /\ UNCHANGED <<cache_vars, shared_vars, batch, now, ua, cb_store, metrics, rate_lock, last_request_ts,
                   call, chain, started, cb_hist>>

NextPool ==
    \/ PoolGet
    \/ PoolNext
    \/ PoolStats
    \/ PoolMetricsSnapshot
    \/ \E p \in Proxies, d \in Durations : PoolMarkLatency(p, d)
    \/ \E p \in Proxies : PoolMarkFailed(p)
    \/ \E p \in Proxies : PoolMarkSuccess(p)
    \/ Tick

SpecPool == Init /\ [][NextPool]_vars

----------------------------------------------------------------------------
(* The browser side on its own: lifecycle and concurrent context acquisitions *)

\* self.client, self._playwright, self._browser as one record
Handles == [client |-> client, playwright |-> _playwright, browser |-> _browser]

\* history: a cleanup that follows a cleanup, with no open in between
AfterCleanup(hist) ==
    IF hist.last_op \in {"cleanup", "cleanup_again"} THEN "cleanup_again" ELSE "cleanup"

\* what a close() / aclose() / stop() awaited by cleanup can raise on
Closables == {"client", "context", "browser", "playwright"}

\* (mutant) the first close that raises ends cleanup
cleanup_aborts_on_raise(S, h, raises) ==
    IF raises # {}
    THEN [S |-> [S EXCEPT !.hist.last_op = AfterCleanup(S.hist)], h |-> h]
    ELSE [S |-> [S EXCEPT !.cache = <<>>, !.profiles = <<>>, !.uas = <<>>,
                          !.hist.closed = @ \cup {S.cache[i].ctx : i \in DOMAIN S.cache},
                          !.hist.handle_closes =
                              @ + Cardinality({x \in DOMAIN h : h[x] # None}),
                          !.hist.last_op = AfterCleanup(S.hist)],
          h |-> [x \in DOMAIN h |-> None]]

\* (mutant) the client handle is kept after it was closed
cleanup_keeps_client(S, h, raises) ==
    [S |-> [S EXCEPT !.cache = <<>>, !.profiles = <<>>, !.uas = <<>>,
                     !.hist.closed = @ \cup {S.cache[i].ctx : i \in DOMAIN S.cache},
                     !.hist.handle_closes =
                         @ + Cardinality({x \in DOMAIN h : h[x] # None}),
                     !.hist.last_op = AfterCleanup(S.hist)],
     h |-> [x \in DOMAIN h |-> IF x = "client" THEN h[x] ELSE None]]

\* cleanup(): every close is tried, whatever it raises is logged, everything is cleared
cleanup(S, h, raises) ==
    [S |-> [S EXCEPT !.cache = <<>>, !.profiles = <<>>, !.uas = <<>>,
                     !.hist.closed = @ \cup {S.cache[i].ctx : i \in DOMAIN S.cache},
                     !.hist.handle_closes =
                         @ + Cardinality({x \in DOMAIN h : h[x] # None}),
                     !.hist.last_op = AfterCleanup(S.hist)],
     h |-> [x \in DOMAIN h |-> None]]

CommitCache(S) ==
    /\ _context_cache' = S.cache
    /\ _context_profiles' = S.profiles
    /\ _context_ua' = S.uas
    /\ ctx_hist' = [S.hist EXCEPT !.recency = SelectSeq(@, LAMBDA x : \E i \in DOMAIN S.cache : S.cache[i].ctx = x)]

\* `async with scraper:` is entered
Open ==
    /\ ctx_hist.opens < MaxOpens
    /\ ctx_hist.last_op # "open"
    /\ \A t \in Tasks : acq[t].pc = "idle"
    /\ client' = "open"
    /\ _playwright' = "open"
    /\ _browser' = "open"
    /\ ctx_hist' = [ctx_hist EXCEPT !.opens = @ + 1, !.last_op = "open"]
    /\ UNCHANGED <<now, ua, fetch_vars, shared_vars, batch, _context_cache, _context_profiles,
                   _context_ua, acq>>

\* `async with scraper:` is left, or cleanup() is awaited directly
Cleanup(raises) ==
    /\ \A t \in Tasks : acq[t].pc = "idle"
    /\ LET r == cleanup(Cache, Handles, raises)
       IN  /\ CommitCache(r.S)
           /\ client' = r.h.client
           /\ _playwright' = r.h.playwright
           /\ _browser' = r.h.browser
    /\ UNCHANGED <<now, ua, fetch_vars, shared_vars, batch, acq>>

\* with_retries rotates the user-agent for an attempt
RotateUA(u) ==
    /\ u # ua
    /\ ua' = u
    /\ UNCHANGED <<now, fetch_vars, cache_vars, shared_vars, batch>>

\* try_browser awaits _get_browser_context(proxies) (it checked self._browser before)
GetBrowserContext(t, k, pr) ==
    /\ ctx_hist.acqs < MaxAcq
    /\ _browser # None
    /\ acq[t].pc = "idle"
    /\ \A t2 \in Tasks : t2 < t => acq[t2].pc # "idle"
    /\ pr \in pick_profile(ua)
    /\ LET r == BeginAcquire([Cache EXCEPT !.hist.acqs = @ + 1], k, pr)
       IN  /\ CommitCache(r.S)
           /\ acq' = [acq EXCEPT ![t] = r.f]
    /\ UNCHANGED <<now, ua, fetch_vars, shared_vars, batch, client, _playwright, _browser>>

\* an await inside _get_browser_context is over
ContextResume(t, pr) ==
    /\ acq[t].pc \in {"prune_close", "old_close", "lru_close", "new_context"}
    /\ pr \in pick_profile(ua)
    /\ LET r == ResumeAcquire(Cache, acq[t], pr)
       IN  /\ CommitCache(r.S)
           /\ acq' = [acq EXCEPT ![t] = r.f]
    /\ UNCHANGED <<now, ua, fetch_vars, shared_vars, batch, client, _playwright, _browser>>

\* new_context or _apply_stealth raises: the error leaves _get_browser_context
ContextCreateFails(t) ==
    /\ acq[t].pc = "new_context"
    /\ acq' = [acq EXCEPT ![t] = [@ EXCEPT !.pc = "ret", !.raised = "PWError"]]
    /\ UNCHANGED <<_context_cache, _context_profiles, _context_ua, ctx_hist>>
    /\ UNCHANGED <<now, ua, fetch_vars, shared_vars, batch, client, _playwright, _browser>>

\* try_browser._impl is through with the context it was handed (its page is closed),
\* or the error of the acquisition has left it
ContextReturn(t) ==
    /\ acq[t].pc = "ret"
    /\ acq' = [acq EXCEPT ![t] = IdleAcq]
    /\ UNCHANGED <<now, ua, fetch_vars, shared_vars, batch, client, _playwright, _browser,
                   _context_cache, _context_profiles, _context_ua, ctx_hist>>

NextCache ==
    \/ Open
    \/ \E raises \in SUBSET Closables : Cleanup(raises)
    \/ \E u \in USER_AGENTS : RotateUA(u)
    \/ \E t \in Tasks, k \in CtxKeys, pr \in BROWSER_PROFILES : GetBrowserContext(t, k, pr)
    \/ \E t \in Tasks, pr \in BROWSER_PROFILES : ContextResume(t, pr)
    \/ \E t \in Tasks : ContextCreateFails(t)
    \/ \E t \in Tasks : ContextReturn(t)
    \/ Tick

SpecCache == Init /\ [][NextCache]_vars

\* try_browser awaits _get_browser_context(proxies), within one burst of fetches
BurstGetBrowserContext(t, k, pr) ==
    /\ ctx_hist.acqs < MaxBurstAcq
    /\ _browser # None
    /\ acq[t].pc = "idle"
    /\ \A t2 \in Tasks : t2 < t => acq[t2].pc # "idle"
    /\ pr \in pick_profile(ua)
    /\ LET r == BeginAcquire([Cache EXCEPT !.hist.acqs = @ + 1], k, pr)
       IN  /\ CommitCache(r.S)
           /\ acq' = [acq EXCEPT ![t] = r.f]
    /\ UNCHANGED <<now, ua, fetch_vars, shared_vars, batch, client, _playwright, _browser>>

\* one burst of concurrent browser fetches: no time passes, the user-agent stays
NextBurst ==
    \/ Open
    \/ \E t \in Tasks, k \in CtxKeys, pr \in BROWSER_PROFILES : BurstGetBrowserContext(t, k, pr)
    \/ \E t \in Tasks, pr \in BROWSER_PROFILES : ContextResume(t, pr)
    \/ \E t \in Tasks : ContextCreateFails(t)
    \/ \E t \in Tasks : ContextReturn(t)

SpecBurst == Init /\ [][NextBurst]_vars

----------------------------------------------------------------------------
(* The shared limiter on its own: attempts of engines that share one semaphore *)

\* `async with self._shared_rate_limiter:` with a permit free: asyncio.sleep(min_interval)
TakePermit(t) ==
    /\ permits > 0
    /\ permits' = permits - 1
    /\ shared' = [shared EXCEPT !.frame[t] = [pc |-> "sleeping", wake |-> now + min_interval]]

\* an attempt reaches _acquire_rate_slot
SharedAcquire(t) ==
    /\ shared.entered < MaxShared
    /\ shared.frame[t].pc = "idle"
    /\ \A t2 \in Tasks : t2 < t => shared.frame[t2].pc # "idle"
    /\ IF permits > 0
       THEN /\ permits' = permits - 1
            /\ shared' = [shared EXCEPT !.entered = @ + 1,
                                        !.frame[t] = [pc |-> "sleeping",
                                                      wake |-> now + min_interval]]
       ELSE /\ permits' = permits
            /\ shared' = [shared EXCEPT !.entered = @ + 1, !.frame[t].pc = "waiting"]
    /\ UNCHANGED <<now, ua, fetch_vars, cache_vars, batch>>

\* a waiting attempt gets a permit that was released
SharedGrant(t) ==
    /\ shared.frame[t].pc = "waiting"
    /\ TakePermit(t)
    /\ UNCHANGED <<now, ua, fetch_vars, cache_vars, batch>>

\* the sleep is over: the permit is given back and the attempt starts
SharedRelease(t) ==
    /\ shared.frame[t].pc = "sleeping"
    /\ now >= shared.frame[t].wake
    /\ permits' = permits + 1
    /\ shared' = [shared EXCEPT !.frame[t] = IdleShared, !.last_release = now]
    /\ UNCHANGED <<now, ua, fetch_vars, cache_vars, batch>>

NextShared ==
    \/ \E t \in Tasks : SharedAcquire(t)
    \/ \E t \in Tasks : SharedGrant(t)
    \/ \E t \in Tasks : SharedRelease(t)
    \/ Tick

SpecShared == InitShared /\ [][NextShared]_vars

----------------------------------------------------------------------------
(* get_multiple_odds: the batch of get_odds calls *)

SportPaths == {"p1"}

\* the sequences over S of length at most n
RECURSIVE SeqsUpTo(_, _)
SeqsUpTo(S, n) ==
    IF n = 0 THEN {<<>>}
    ELSE LET shorter == SeqsUpTo(S, n - 1)
         IN  shorter \cup {Append(q, x) : q \in shorter, x \in S}

\* what the get_odds task number i of a batch can end with: a list of matches, each
\* tagged with the task it comes from, or an exception
GetOddsResults(i) ==
    {[kind |-> "return", val |-> [n \in 1..len |-> [task |-> i, n |-> n]]] : len \in 0..MaxMatches}
       \cup {[kind |-> "raise", val |-> <<>>]}

Pending == [kind |-> "pending", val |-> <<>>]

\* (mutant) the first exception among the gathered results ends the collection
RECURSIVE Collect_stops_at_exception(_)
Collect_stops_at_exception(gathered) ==
    IF gathered = <<>> THEN <<>>
    ELSE IF Head(gathered).kind = "raise" THEN <<>>
    ELSE Head(gathered).val \o Collect_stops_at_exception(Tail(gathered))

\* `for res in gathered`: an exception is logged and skipped, a truthy list extends results
RECURSIVE Collect(_)
Collect(gathered) ==
    IF gathered = <<>> THEN <<>>
    ELSE LET res == Head(gathered)
         IN  IF res.kind = "raise" THEN Collect(Tail(gathered))
             ELSE IF res.val # <<>> THEN res.val \o Collect(Tail(gathered))
             ELSE Collect(Tail(gathered))

\* get_multiple_odds(api_endpoints, sport_paths) up to `await asyncio.gather(...)`
GetMultipleOdds(apis, paths) ==
    /\ batch.pc = "idle"
    /\ batch.calls < MaxBatches
    /\ LET targets == [i \in DOMAIN apis |-> [api_endpoint |-> apis[i], sport_path |-> ""]]
                         \o [i \in DOMAIN paths |-> [api_endpoint |-> None, sport_path |-> paths[i]]]
       IN  batch' = [batch EXCEPT !.pc = "gather", !.targets = targets,
                                  !.done = [i \in DOMAIN targets |-> Pending],
                                  !.ret = <<>>, !.calls = @ + 1]
    /\ UNCHANGED <<now, ua, fetch_vars, cache_vars, shared_vars>>

\* one of the gathered get_odds calls ends, with a return value or an exception
GetOddsDone(i, o) ==
    /\ batch.pc = "gather"
    /\ i \in DOMAIN batch.done
    /\ batch.done[i] = Pending
    /\ o \in GetOddsResults(i)
    /\ batch' = [batch EXCEPT !.done[i] = o]
    /\ UNCHANGED <<now, ua, fetch_vars, cache_vars, shared_vars>>

\* gather(return_exceptions=True) is over when every call has ended: collect and return
GatherDone ==
    /\ batch.pc = "gather"
    /\ \A i \in DOMAIN batch.done : batch.done[i] # Pending
    /\ batch' = [batch EXCEPT !.pc = "ret", !.ret = Collect(batch.done)]
    /\ UNCHANGED <<now, ua, fetch_vars, cache_vars, shared_vars>>

\* the caller has the list
BatchReturn ==
    /\ batch.pc = "ret"
    /\ batch' = [IdleBatch EXCEPT !.calls = batch.calls]
    /\ UNCHANGED <<now, ua, fetch_vars, cache_vars, shared_vars>>

NextBatch ==
    \/ \E apis \in SeqsUpTo(ApiEndpoints, MaxApis), paths \in SeqsUpTo(SportPaths, MaxPaths) :
          GetMultipleOdds(apis, paths)
    \/ \E i \in 1..(MaxApis + MaxPaths) : \E o \in GetOddsResults(i) : GetOddsDone(i, o)
    \/ GatherDone
    \/ BatchReturn

SpecBatch == Init /\ [][NextBatch]_vars

----------------------------------------------------------------------------
(* Properties *)

Record(k) == _cb_get(cb_store, k)[k]

InCall(t) == call[t].pc \in {"rate", "rate_sleep", "io", "backoff"}

\* the step in which task t enters with_retries.wrapped
AdmissionStep(t) ==
    /\ call[t].pc \in {"idle", "ret"}
    /\ call'[t] # call[t]
    /\ call'[t].pc # "idle"

\* the step in which the wrapped call of task t returns the failure sentinel after
\* at least one attempt
FailedReturnStep(t) ==
    /\ call[t].pc \in {"io", "backoff"}
    /\ call'[t].pc = "ret"
    /\ call'[t].result = None

OpenNotElapsed(k) ==
    /\ k \in DOMAIN cb_store
    /\ cb_store[k].state = "open"
    /\ now - cb_store[k].opened_at < recovery_timeout

\* C1: for every key the breaker is open only when at least failure_threshold failures
\* were recorded since the last recorded success, it is not closed once that many were
\* recorded, and the step that records the failure_threshold-th such failure opens it.
C1_OpensAtThreshold ==
    /\ [](\A k \in Keys :
            /\ Record(k).state = "open" => cb_hist[k] >= failure_threshold
            /\ cb_hist[k] >= failure_threshold => Record(k).state # "closed")
    /\ [][\A k \in Keys :
            (cb_hist'[k] = cb_hist[k] + 1 /\ cb_hist'[k] >= failure_threshold)
               => (cb_store'[k].state = "open" /\ cb_store'[k].opened_at = now)]_vars

C1_Witness ==
    \E k \in DOMAIN cb_store :
       /\ cb_store[k].state = "open"
       /\ cb_hist[k] = failure_threshold
       /\ failure_threshold > 1

\* C2: a wrapped call that finds its breaker open before recovery_timeout has elapsed
\* returns the sentinel in its admission step: no primitive is started, no rate slot
\* taken, no proxy drawn, nothing counted.
C2_OpenShortCircuits ==
    [][\A t \in Tasks :
         (AdmissionStep(t) /\ OpenNotElapsed(call'[t].key))
            => /\ call'[t].pc = "ret"
               /\ call'[t].result = None
               /\ call'[t].raised = None
               /\ call'[t].proxy = None
               /\ call'[t].attempt = 0
               /\ proxy_pool' = proxy_pool
               /\ metrics' = metrics
               /\ rate_lock' = rate_lock
               /\ last_request_ts' = last_request_ts
               /\ cb_store' = cb_store]_vars

C2_Witness ==
    \E t \in Tasks :
       /\ call[t].pc = "ret"
       /\ call[t].seen = "open"
       /\ call[t].attempt = 0
       /\ OpenNotElapsed(call[t].key)
       /\ cb_store[call[t].key].fail_count = failure_threshold

\* C3: while a breaker is half-open, at most one call admitted as its trial is in flight.
C3_SingleTrial ==
    \A k \in DOMAIN cb_store :
       cb_store[k].state = "half-open"
          => Cardinality({t \in Tasks : /\ InCall(t)
                                        /\ call[t].key = k
                                        /\ call[t].seen \in {"open", "half-open"}}) <= 1

\* C4 (as stated): get() and next() do not return a proxy before the deadline set when
\* its failure count reached max_failures.
C4_ExcludedUntilDeadline ==
    (pool_hist.op \in {"get", "next"} /\ pool_hist.ret # None)
       => now >= pool_hist.deadline[pool_hist.ret]

\* C4 (amended): ... unless mark_success was applied to the proxy since the count
\* reached max_failures.
C4_ExcludedUntilDeadlineOrSuccess ==
    (pool_hist.op \in {"get", "next"} /\ pool_hist.ret # None)
       => \/ now >= pool_hist.deadline[pool_hist.ret]
          \/ pool_hist.forgiven[pool_hist.ret]

C4_Witness ==
    /\ pool_hist.op \in {"get", "next"}
    /\ pool_hist.ret # None
    /\ \E p \in Proxies :
          /\ p # pool_hist.ret
          /\ proxy_pool.fail_counts[p] >= max_failures
          /\ now < pool_hist.deadline[p]
          /\ ~pool_hist.forgiven[p]

\* C5: the step in which a wrapped call returns the sentinel after its attempts failed
\* records one breaker failure for its key and adds one to endpoint_errors[key], and
\* nothing else changes either count: not another key, not an earlier attempt.
C5_OneFailurePerCall ==
    [][/\ \A t \in Tasks :
            FailedReturnStep(t)
               => LET k == call[t].key
                  IN  /\ metrics'.endpoint_errors =
                            [metrics.endpoint_errors EXCEPT ![k] = @ + 1]
                      /\ cb_hist' = [cb_hist EXCEPT ![k] = @ + 1]
                      /\ cb_store'[k].fail_count = Record(k).fail_count + 1
                      /\ \A k2 \in DOMAIN cb_store : k2 # k => cb_store'[k2] = cb_store[k2]
       /\ (\/ metrics'.endpoint_errors # metrics.endpoint_errors
           \/ \E k \in Keys : cb_hist'[k] > cb_hist[k])
             => \E t \in Tasks : FailedReturnStep(t)]_vars

C5_Witness ==
    \E t \in Tasks :
       /\ call[t].pc = "ret"
       /\ call[t].attempt = default_max_retries
       /\ default_max_retries > 1
       /\ call[t].exc \in retry_on
       /\ call[t].result = None
       /\ metrics.endpoint_errors[call[t].key] = 1
       /\ \E k \in Keys : k # call[t].key /\ metrics.endpoint_errors[k] > 0

\* C6: get_odds never raises: whatever the primitives, the breaker and the hooks do,
\* the call ends by returning its list.
C6_GetOddsNeverRaises ==
    \A t \in Tasks : chain[t].status # "raised"

C6_Witness ==
    \E t \in Tasks :
       /\ chain[t].status = "returned"
       /\ chain[t].exc_seen
       /\ chain[t].matches = <<>>

\* C7: get_odds invokes its tiers in the order api, http, browser; while it runs no
\* tier has parsed anything, and it returns either the records of the last tier it
\* invoked or, empty-handed, only after the browser tier.
C7_TierOrder ==
    \A t \in Tasks :
       chain[t].status # "idle"
          => LET c == chain[t]
                 first == IF c.api # None THEN 1 ELSE 2
                 n == Len(c.invoked)
             IN  /\ n >= 1
                 /\ c.invoked = SubSeq(Tiers, first, first + n - 1)
                 /\ c.status = "running" => c.matches = <<>>
                 /\ \A i \in 1..Len(c.matches) : c.matches[i] = c.invoked[n]
                 /\ (c.status = "returned" /\ c.matches = <<>>) => c.invoked[n] = "browser"

C7_Witness ==
    \E t \in Tasks :
       /\ chain[t].status = "returned"
       /\ chain[t].api # None
       /\ chain[t].invoked = <<"api", "http">>
       /\ chain[t].matches = <<"http", "http", "http">>

\* C8: an attempt before the last whose primitive returned an empty result is followed
\* by a backoff and a further attempt.
C8_EmptyResultRetried ==
    \A t \in Tasks :
       (call[t].last = "none" /\ call[t].attempt < default_max_retries)
          => call[t].pc = "backoff"

\* C9: after a failed attempt before the last whose response carried Retry-After: s
\* the call backs off for at least s.
C9_RetryAfterHonoured ==
    \A t \in Tasks :
       (call[t].last = "raise" /\ call[t].retry_after > 0
          /\ call[t].attempt < default_max_retries)
          => (call[t].pc = "backoff" /\ call[t].sleep_for >= call[t].retry_after)

\* C10: an attempt before the last that ended in an HTTP 429/5xx status error is
\* followed by a backoff and a further attempt.
C10_StatusErrorRetried ==
    \A t \in Tasks :
       (call[t].last = "raise" /\ call[t].exc = "HTTPStatusError"
          /\ call[t].attempt < default_max_retries)
          => call[t].pc = "backoff"

\* C11: a wrapped call whose primitive raised a non-retryable error (here the
\* RuntimeError "Browser not initialized" of try_browser) ends on that attempt without a
\* backoff, and the error reaches the caller of the wrapped call instead of the sentinel.
C11_NonRetryablePropagates ==
    \A t \in Tasks :
       (call[t].last = "raise" /\ call[t].exc = "RuntimeError")
          => /\ call[t].pc = "ret"
             /\ call[t].sleep_for = 0
             /\ call[t].raised = call[t].exc

\* the step in which an attempt of task t is released from the limiter and starts
ReleaseStep(t) == call[t].pc # "io" /\ call'[t].pc = "io"

\* C15: an attempt is released from the per-instance limiter at least min_interval after
\* the previous release on the engine, whichever task or attempt that was, and the
\* release is what the limiter remembers.
C15_ReleasesSpaced ==
    [][\A t \in Tasks :
         ReleaseStep(t)
            => /\ \A t2 \in Tasks : now - call[t2].start >= min_interval
               /\ now - last_request_ts >= min_interval
               /\ call'[t].start = now
               /\ last_request_ts' = now]_vars

C15_Witness ==
    \E t, t2 \in Tasks :
       /\ t # t2
       /\ call[t].pc = "io"
       /\ call[t2].attempt >= 1
       /\ min_interval > 0
       /\ call[t].start = call[t2].start + min_interval
       /\ call[t2].start >= StartTime

\* C17: the tiers of get_odds work on distinct breaker keys: a frame's key carries its
\* own tier, a step changes only the record of the key of the tier it runs, and a tier
\* is rejected at admission only when its own key is open and not yet recoverable.
C17_TierKeysIndependent ==
    /\ [](\A t \in Tasks : call[t].tier # None => call[t].key[1] = call[t].tier)
    /\ [][/\ \A k \in Keys :
               Record(k)' # Record(k)
                  => \E t \in Tasks : call'[t].key = k /\ call'[t].tier = k[1]
          /\ \A t \in Tasks :
               (AdmissionStep(t) /\ call'[t].attempt = 0)
                  => (OpenNotElapsed(call'[t].key) /\ call'[t].key[1] = call'[t].tier)]_vars

C17_Witness ==
    \E t \in Tasks :
       /\ chain[t].status = "running"
       /\ chain[t].invoked = <<"api", "http">>
       /\ OpenNotElapsed(<<"api", chain[t].api>>)
       /\ call[t].tier = "http"
       /\ call[t].seen = "closed"
       /\ call[t].attempt >= 1

\* C20: in direct mode no proxy is ever drawn and no step changes the engine's user-agent.
C20_DirectModeFixedUA ==
    /\ [](\A t \in Tasks : call[t].proxy = None)
    /\ [][ua' = ua]_vars

\* C12: the context cache never holds more than CONTEXT_CACHE_MAX entries, however the
\* acquisitions of concurrent browser fetches interleave.
C12_CacheBounded ==
    Len(_context_cache) <= CONTEXT_CACHE_MAX

\* the step in which _get_browser_context of task t returns or raises
ContextReturnStep(t) == acq[t].pc # "ret" /\ acq'[t].pc = "ret"

\* C13: a context returned from the cache was stored under the user-agent the engine has
\* at the lookup; a cached entry stored under another user-agent is closed, then removed,
\* and the acquisition creates its context with the engine's user-agent and stores it.
C13_NoReuseOnUaMismatch ==
    [][\A t \in Tasks :
         LET k == acq'[t].key
         IN  /\ (ContextReturnStep(t) /\ acq'[t].reused)
                   => /\ HasKey(_context_cache, k)
                      /\ EntryOf(_context_cache, k).ctx = acq'[t].result
                      /\ k \in DOMAIN _context_ua
                      /\ _context_ua[k] = ua
             /\ (acq[t].pc # "old_close" /\ acq'[t].pc = "old_close")
                   => /\ HasKey(_context_cache, k)
                      /\ (k \in DOMAIN _context_ua => _context_ua[k] # ua)
                      /\ EntryOf(_context_cache, k).ctx \in ctx_hist'.closed
             /\ (acq[t].pc = "old_close" /\ acq'[t].pc # "old_close")
                   => ~HasKey(_context_cache', k)
             /\ (acq[t].pc # "new_context" /\ acq'[t].pc = "new_context")
                   => acq'[t].made_with = ua
             /\ (ContextReturnStep(t) /\ acq[t].mismatch /\ acq'[t].raised = None)
                   => /\ ~acq'[t].reused
                      /\ acq'[t].result = acq[t].ctx
                      /\ EntryOf(_context_cache', k).ctx = acq'[t].result
                      /\ _context_ua'[k] = ua]_vars

C13_Witness ==
    \E t \in Tasks :
       /\ acq[t].pc = "ret"
       /\ acq[t].mismatch
       /\ acq[t].raised = None
       /\ acq[t].result = acq[t].ctx
       /\ acq[t].result > 1
       /\ HasKey(_context_cache, acq[t].key)
       /\ EntryOf(_context_cache, acq[t].key).ctx = acq[t].result
       /\ _context_ua[acq[t].key] = ua

CleanupStep ==
    /\ ctx_hist'.last_op # ctx_hist.last_op
    /\ ctx_hist'.last_op \in {"cleanup", "cleanup_again"}

\* C18: when cleanup() returns, whatever its closes raised, a close was attempted on
\* every context that was in the cache, the cache and its two maps are empty, and the
\* client, browser and playwright handles are cleared.
C18_CleanupReleasesAll ==
    [][CleanupStep
          => /\ \A i \in DOMAIN _context_cache : _context_cache[i].ctx \in ctx_hist'.closed
             /\ _context_cache' = <<>>
             /\ DOMAIN _context_profiles' = {}
             /\ DOMAIN _context_ua' = {}
             /\ client' = None
             /\ _browser' = None
             /\ _playwright' = None]_vars

C18_Witness ==
    /\ ctx_hist.last_op = "cleanup"
    /\ ctx_hist.opens = 1
    /\ ctx_hist.handle_closes = 3
    /\ Cardinality(ctx_hist.closed) >= 2
    /\ _context_cache = <<>>
    /\ _browser = None

\* C19: cleanup() run again with no open in between closes nothing and changes nothing.
C19_CleanupIdempotent ==
    [][(CleanupStep /\ ctx_hist.last_op = "cleanup")
          => /\ ctx_hist' = [ctx_hist EXCEPT !.last_op = "cleanup_again"]
             /\ UNCHANGED <<client, _playwright, _browser, _context_cache,
                            _context_profiles, _context_ua, acq,
                            fetch_vars, shared_vars, batch, ua, now>>]_vars

C19_Witness ==
    /\ ctx_hist.last_op = "cleanup_again"
    /\ ctx_hist.opens = 1
    /\ ctx_hist.handle_closes = 3
    /\ ctx_hist.closed # {}
    /\ client = None

\* C16: at the shared limiter every attempt holds a permit from its entry to its
\* release, and two attempts are released at least min_interval apart.
C16_SharedReleasesSpaced ==
    /\ [](permits + Cardinality({t \in Tasks : shared.frame[t].pc = "sleeping"}) = shared.capacity)
    /\ [][\A t \in Tasks :
            (shared.frame[t].pc = "sleeping" /\ shared'.frame[t].pc = "idle")
               => now - shared.last_release >= min_interval]_vars

\* eligibility of a proxy at time t: no blacklist entry that is still running, and a
\* count below max_failures once an expired entry has reset it
Eligible(pool, p, t) ==
    IF p \in DOMAIN pool.blacklist
    THEN pool.blacklist[p] <= t
    ELSE pool.fail_counts[p] < max_failures

EligibleSet(pool, t) == {p \in DOMAIN pool.fail_counts : Eligible(pool, p, t)}

\* the step of one pool operation
PoolStep(op) ==
    /\ pool_hist'.ops = pool_hist.ops + 1
    /\ pool_hist'.op = op

\* C22: when a proxy is eligible get() returns an eligible proxy whose mean latency is
\* minimal among the eligible ones (no samples counting as infinite), and it returns
\* none only when no proxy is eligible.
C22_GetReturnsBestEligible ==
    [][PoolStep("get") =>
         LET E == EligibleSet(proxy_pool, now)
             r == pool_hist'.ret
         IN  /\ E # {} => /\ r \in E
                          /\ \A q \in E : ~MeanLess(proxy_pool.latencies[q],
                                                      proxy_pool.latencies[r])
             /\ r = None => E = {}]_vars

C22_Witness ==
    /\ pool_hist.op = "get"
    /\ pool_hist.ret = "B"
    /\ Eligible(proxy_pool, "A", now)
    /\ MeanLess(proxy_pool.latencies["B"], proxy_pool.latencies["A"])
    /\ proxy_pool.latencies["A"] # <<>>

\* C23: on a pool without any latency sample get() returns the proxy next() would
\* return and advances the rotation as next() does, so that successive calls of get()
\* go round the eligible proxies.
C23_GetFallsBackToNext ==
    [][(PoolStep("get") /\ \A p \in Proxies : proxy_pool.latencies[p] = <<>>) =>
         /\ pool_hist'.ret = next(proxy_pool, now).ret
         /\ proxy_pool' = next(proxy_pool, now).pool]_vars

\* the k-th proxy after the rotation position of the pool
AfterPosition(pool, k) == pool.proxies[((pool.cycle + k - 1) % Len(pool.proxies)) + 1]

\* C24: next() draws at most one full cycle of the rotation; it returns the first
\* eligible proxy after the rotation position, leaving the position just behind it, and
\* it returns none exactly when every proxy is ineligible.
C24_NextOneCycle ==
    [][PoolStep("next") =>
         LET E == EligibleSet(proxy_pool, now)
             n == Len(proxy_pool.proxies)
             r == pool_hist'.ret
             i == next(proxy_pool, now).inspected
         IN  /\ i <= n
             /\ r = None <=> E = {}
             /\ r # None => /\ r = AfterPosition(proxy_pool, i)
                            /\ r \in E
                            /\ \A j \in 1..(i - 1) : AfterPosition(proxy_pool, j) \notin E
                            /\ proxy_pool'.cycle = (proxy_pool.cycle + i) % n]_vars

\* the first rotation of the pool skipped the blacklisted "A" and returned "B"
C24_Witness ==
    /\ pool_hist.op = "next"
    /\ pool_hist.ops = max_failures + 1
    /\ pool_hist.ret = "B"
    /\ ~Eligible(proxy_pool, "A", now)
    /\ proxy_pool.cycle = 0

\* C25 (as stated): in every reachable state of the pool, a second mark_success(p) right
\* after a first one changes neither a failure count nor the blacklist.
C25_MarkSuccessIdempotent ==
    \A p \in Proxies :
       LET once == mark_success(proxy_pool, p)
           twice == mark_success(once, p)
       IN  /\ twice.fail_counts = once.fail_counts
           /\ twice.blacklist = once.blacklist

\* C25 (amended): a second mark_success(p) never changes the blacklist, and it leaves
\* the failure counts alone exactly when the count of p was at most 1; otherwise every
\* application lowers the count of p by one more.
C25_MarkSuccessIdempotentAtFloor ==
    \A p \in Proxies :
       LET c == proxy_pool.fail_counts[p]
           once == mark_success(proxy_pool, p)
           twice == mark_success(once, p)
       IN  /\ twice.blacklist = once.blacklist
           /\ c <= 1 => twice.fail_counts = once.fail_counts
           /\ c > 1 => twice.fail_counts = [once.fail_counts EXCEPT ![p] = c - 2]

\* mark_success was applied to a proxy whose count is now 1, or 0
C25_Witness ==
    /\ pool_hist.op = "mark_success"
    /\ \E p \in Proxies : pool_hist.forgiven[p] /\ proxy_pool.fail_counts[p] = 1
    /\ \E p \in Proxies : pool_hist.forgiven[p] /\ proxy_pool.fail_counts[p] = 0

\* C26: no failure count is ever negative, and a mark_success step lowers the count of
\* one proxy by one, not below 0, removes that proxy's blacklist entry and touches
\* nothing else of the pool.
C26_CountNeverNegative ==
    /\ [](\A p \in Proxies : proxy_pool.fail_counts[p] >= 0)
    /\ [][PoolStep("mark_success") =>
            \E p \in Proxies :
               /\ proxy_pool'.fail_counts =
                     [proxy_pool.fail_counts EXCEPT ![p] = IF @ > 0 THEN @ - 1 ELSE 0]
               /\ DOMAIN proxy_pool'.blacklist = (DOMAIN proxy_pool.blacklist) \ {p}
               /\ \A q \in DOMAIN proxy_pool'.blacklist :
                     proxy_pool'.blacklist[q] = proxy_pool.blacklist[q]
               /\ proxy_pool'.latencies = proxy_pool.latencies
               /\ proxy_pool'.cycle = proxy_pool.cycle]_vars

\* mark_success applied to a pool on which no failure was ever marked
C26_Witness ==
    /\ pool_hist.op = "mark_success"
    /\ pool_hist.ops = 1
    /\ \A p \in Proxies : proxy_pool.fail_counts[p] = 0

\* C27: stats() and metrics_snapshot() change nothing: the failure counts, the
\* blacklist, the latency windows, the rotation position, the breaker records and the
\* metric counters are after the call what they were before it.
C27_SnapshotsReadOnly ==
    [][(PoolStep("stats") \/ PoolStep("metrics_snapshot")) =>
         /\ proxy_pool' = proxy_pool
         /\ cb_store' = cb_store
         /\ metrics' = metrics]_vars

\* C28: an open breaker stays open until an admission check made recovery_timeout
\* after opened_at turns it half-open; no step takes it from open to closed or clears
\* opened_at, whatever the calls in flight for its key record.
C28_OpenLeavesOnlyToHalfOpen ==
    [][\A k \in DOMAIN cb_store :
         cb_store[k].state = "open" =>
            /\ cb_store'[k].state \in {"open", "half-open"}
            /\ cb_store'[k].state = "half-open" =>
                  /\ now - cb_store[k].opened_at >= recovery_timeout
                  /\ \E t \in Tasks : AdmissionStep(t) /\ call'[t].key = k
            /\ cb_store'[k].opened_at >= cb_store[k].opened_at]_vars

\* the step in which the fetch primitive of task t is invoked (first attempt or retry)
ExecStep(t) ==
    /\ call[t].pc # "io"
    /\ call'[t].pc = "io"

\* C29: no attempt, first or retried, invokes the fetch primitive for a key whose
\* breaker is open with recovery_timeout not yet elapsed.
C29_NoAttemptWhileOpen ==
    [][\A t \in Tasks :
         ExecStep(t) =>
            LET k == call'[t].key
            IN  ~(/\ cb_store'[k].state = "open"
                  /\ now' - cb_store'[k].opened_at < recovery_timeout)]_vars

\* C30: the user-agent stored for the key of every cache entry is the user-agent the
\* entry's browser context was created with.
C30_StoredUaIsCreationUa ==
    \A i \in DOMAIN _context_cache :
       /\ _context_cache[i].key \in DOMAIN _context_ua
       /\ _context_ua[_context_cache[i].key] = _context_cache[i].made_with

\* the get_odds calls of the batch that ended with a return value
Returned == {i \in DOMAIN batch.done : batch.done[i].kind = "return"}

\* C21: get_multiple_odds runs one get_odds call per api endpoint and per sport path,
\* in that order, lets every one of them end, and returns the lists of the calls that
\* returned, concatenated in the order of the calls; a call that raised or returned an
\* empty list contributes nothing.
C21_BatchFlattensSurvivors ==
    batch.pc = "ret" =>
       /\ DOMAIN batch.done = DOMAIN batch.targets
       /\ \A i, j \in DOMAIN batch.targets :
             (batch.targets[i].api_endpoint # None /\ batch.targets[j].api_endpoint = None)
                => i < j
       /\ \A i \in DOMAIN batch.targets : batch.done[i] # Pending
       /\ \A j \in DOMAIN batch.ret :
             /\ batch.ret[j].task \in Returned
             /\ batch.ret[j] = batch.done[batch.ret[j].task].val[batch.ret[j].n]
       /\ \A i \in Returned : \A n \in DOMAIN batch.done[i].val :
             \E j \in DOMAIN batch.ret : batch.ret[j] = batch.done[i].val[n]
       /\ \A j, k \in DOMAIN batch.ret :
             j < k => \/ batch.ret[j].task < batch.ret[k].task
                      \/ /\ batch.ret[j].task = batch.ret[k].task
                         /\ batch.ret[j].n < batch.ret[k].n

\* a batch in which a call raised, one returned nothing, and a later one returned matches
C21_Witness ==
    /\ batch.pc = "ret"
    /\ \E i, j, k \in DOMAIN batch.done :
          /\ i < k /\ j < k
          /\ batch.done[i].kind = "raise"
          /\ batch.done[j].kind = "return" /\ batch.done[j].val = <<>>
          /\ batch.done[k].kind = "return" /\ Len(batch.done[k].val) = MaxMatches
    /\ Len(batch.ret) = MaxMatches

\* the step in which the primitive of task t returns a value and the wrapped call ends
SuccessStep(t) ==
    /\ call[t].pc = "io"
    /\ call'[t].last = "value"

\* C35: the attempt whose primitive returns a value ends the wrapped call with that
\* value; the latency is appended to the proxy's window and the proxy marked success,
\* and the breaker record of the key is closed with fail_count 0, whatever it was.
C35_SuccessEndsCall ==
    [][\A t \in Tasks :
         SuccessStep(t) =>
            LET f == call[t]
                p == f.proxy
            IN  /\ call'[t].pc = "ret"
                /\ call'[t].result # None
                /\ call'[t].attempt = f.attempt
                /\ cb_store'[f.key] = [fail_count |-> 0, state |-> "closed", opened_at |-> 0]
                /\ metrics'.successful_requests = metrics.successful_requests + 1
                /\ metrics'.requests_made = metrics.requests_made
                /\ p # None =>
                      /\ proxy_pool'.latencies[p] = Append(proxy_pool.latencies[p], now - f.start)
                      /\ proxy_pool'.fail_counts[p] = Max(0, proxy_pool.fail_counts[p] - 1)
                      /\ p \notin DOMAIN proxy_pool'.blacklist]_vars

\* the trial admitted from an open breaker succeeded on its second attempt
C35_Witness ==
    \E t \in Tasks :
       /\ call[t].pc = "ret"
       /\ call[t].last = "value"
       /\ call[t].seen = "open"
       /\ call[t].proxy # None
       /\ cb_store[call[t].key].state = "closed"

\* C36: a failure recorded for a key whose breaker is half-open opens the breaker with
\* opened_at at the time of that failure, so that the breaker is then open with the
\* whole recovery_timeout ahead of it.
C36_FailedTrialReopens ==
    [][\A k \in DOMAIN cb_store :
         (cb_store[k].state = "half-open" /\ cb_hist'[k] = cb_hist[k] + 1)
            => /\ cb_store'[k].state = "open"
               /\ cb_store'[k].opened_at = now
               /\ cb_store'[k].fail_count = cb_store[k].fail_count + 1
               /\ recovery_timeout > 0 => OpenNotElapsed(k)']_vars

\* the trial admitted after recovery_timeout failed, and the breaker was reopened then
C36_Witness ==
    \E t \in Tasks :
       /\ call[t].pc = "ret"
       /\ call[t].seen = "open"
       /\ call[t].attempt >= 1
       /\ call[t].result = None
       /\ cb_store[call[t].key].state = "open"
       /\ cb_store[call[t].key].opened_at = now
       /\ cb_store[call[t].key].fail_count > failure_threshold

\* the step in which an attempt of task t fails with an error of retry_on
TransientFailureStep(t) ==
    /\ call[t].pc = "io"
    /\ call'[t].pc = "backoff"

\* C37: the proxy of an attempt does not change from the draw to the end of the
\* attempt; a transient failure applies mark_failed to that proxy once, and the proxy
\* of the following attempt is what next() returns on the pool after that mark_failed:
\* never the proxy the failure has just blacklisted.
C37_RotationAfterFailure ==
    [][\A t \in Tasks :
         /\ (InCall(t) /\ InCall(t)' /\ ~TransientFailureStep(t))
               => call'[t].proxy = call[t].proxy
         /\ TransientFailureStep(t) =>
               LET p == call[t].proxy
                   failed == mark_failed(proxy_pool, p, now)
               IN  /\ call'[t].proxy = next(failed, now).ret
                   /\ proxy_pool' = next(failed, now).pool
                   /\ p # None =>
                         /\ proxy_pool'.fail_counts[p] = proxy_pool.fail_counts[p] + 1
                         /\ metrics'.proxy_fail = metrics.proxy_fail + 1
                         /\ proxy_pool'.fail_counts[p] >= max_failures
                               => /\ call'[t].proxy # p
                                  /\ proxy_pool'.blacklist[p] = now + cooldown]_vars

\* the failure that blacklisted "A" was followed by a draw of "B"
C37_Witness ==
    \E t \in Tasks :
       /\ call[t].pc = "backoff"
       /\ call[t].proxy = "B"
       /\ proxy_pool.fail_counts["A"] = max_failures
       /\ "A" \in DOMAIN proxy_pool.blacklist
       /\ proxy_pool.blacklist["A"] = now + cooldown

\* C38: a backoff sleep happens only before a further attempt: the step in which the
\* last permitted attempt of a wrapped call fails records the breaker failure and
\* returns the sentinel, without a sleep and without a draw from the rotation.
C38_NoBackoffAfterLastAttempt ==
    [][\A t \in Tasks :
         (/\ call[t].pc = "io"
          /\ call[t].attempt = default_max_retries
          /\ call'[t].pc # "io"
          /\ call'[t].last # "value")
            => /\ call'[t].pc = "ret"
               /\ call'[t].result = None
               /\ cb_hist'[call[t].key] = cb_hist[call[t].key] + 1
               /\ proxy_pool'.cycle = proxy_pool.cycle]_vars

\* C34: on an engine configured with at least one proxy every invocation of the fetch
\* primitive goes through a proxy.
C34_NoDirectAttempt ==
    [][\A t \in Tasks :
         (ExecStep(t) /\ Len(proxy_pool.proxies) > 0) => call'[t].proxy # None]_vars

\* C33: whatever mark_failed and mark_success did before, a get() or next() made once
\* the cooldown has elapsed since the last mark_failed that found the count of a proxy
\* at max_failures or above leaves that proxy available.
C33_NoProxyExcludedForever ==
    [][(PoolStep("get") \/ PoolStep("next")) =>
         \A p \in Proxies :
            now >= pool_hist.deadline[p] => is_available(proxy_pool', p)]_vars

\* the keys of the cache entries
CacheKeys == {_context_cache[i].key : i \in DOMAIN _context_cache}

\* no task is inside _get_browser_context
NoAcquisition == \A t \in Tasks : acq[t].pc \in {"idle", "ret"}

\* C40: whenever no acquisition is in progress, the cache, the profile map and the
\* user-agent map have the same keys.
C40_MapsShareKeys ==
    NoAcquisition =>
       /\ DOMAIN _context_profiles = CacheKeys
       /\ DOMAIN _context_ua = CacheKeys

\* task t's fetch holds the context its acquisition returned
InUse(t) == acq[t].pc = "ret" /\ acq[t].raised = None

\* C31: no step closes a context that a fetch was handed and is still using.
C31_NoCloseWhileInUse ==
    [][\A t \in Tasks :
         (InUse(t) /\ acq[t].result \notin ctx_hist.closed)
            => acq[t].result \notin ctx_hist'.closed]_vars

\* the contexts the cache entries refer to
CacheCtxs == {_context_cache[i].ctx : i \in DOMAIN _context_cache}

\* C32: a context leaves the cache only closed: no step drops the cache's reference to
\* a context without a close of that context (after which neither the cache nor
\* cleanup() could close it any more).
C32_NoContextLeftUnclosed ==
    [][\A id \in CacheCtxs : id \notin CacheCtxs' => id \in ctx_hist'.closed]_vars

\* task t's acquisition pops an entry in "enforce LRU limit"
LruEvictStep(t) == acq'[t] # acq[t] /\ acq'[t].pc = "lru_close"

\* task t's acquisition returns a cached context
HitStep(t) == acq[t].pc # "ret" /\ acq'[t].pc = "ret" /\ acq'[t].reused

\* the place of context id in the order of last returns
RecencyRank(id) == CHOOSE i \in DOMAIN ctx_hist.recency : ctx_hist.recency[i] = id

\* C39: the entry an LRU eviction removes is closed and is the one whose last return
\* from an acquisition is older than that of every entry that stays; a context returned
\* on a cache hit is the last (most recently used) entry afterwards.
C39_EvictsLeastRecentlyUsed ==
    [][\A t \in Tasks :
         /\ LruEvictStep(t) =>
               LET evicted == EntryOf(_context_cache, acq'[t].old).ctx
               IN  /\ evicted \notin CacheCtxs'
                   /\ evicted \in ctx_hist'.closed
                   /\ \A id \in CacheCtxs' : RecencyRank(evicted) < RecencyRank(id)
         /\ HitStep(t) =>
               _context_cache'[Len(_context_cache')].ctx = acq'[t].result]_vars

====
